---- MODULE Spec2Model ----
(***************************************************************************)
(* Model of the crawl pipeline of the analytics platform:                  *)
(*   - ScraperService (scrapePage, extractCategories, getDomain,           *)
(*     scrapeWebsite) from services/scraper.ts,                            *)
(*   - the POST /api/scrape/start handler and its background task from     *)
(*     server/routes.ts,                                                   *)
(*   - MemStorage.createProject / updateProject from server/storage.ts,    *)
(*   - NLPService.extractEntities and the entity table (EntitySpec),       *)
(*   - the export routes and their background task (ExportSpec),           *)
(*   - DELETE /api/projects/:id during a run (DeleteSpec),                 *)
(*   - GraphBuilderService.getNodeNeighbors (GraphSpec).                   *)
(*                                                                         *)
(* Strings that the code inspects (URLs, anchor texts) are sequences of    *)
(* one-character strings, so hostname extraction, String.includes,         *)
(* toLowerCase/startsWith and sanitizeFilename are computed, not assumed.  *)
(* What a fetch returns is an input, drawn when the fetch settles.         *)
(***************************************************************************)
EXTENDS Naturals, Integers, Sequences, FiniteSets, TLC

VARIABLES
    httpStatus,     \* response of POST /api/scrape/start: 0 none yet, 200, 400
    config,         \* the parsed ScrapingConfig; maxDepth and maxWorkers are in halves
    project,        \* the Project record in MemStorage.projects
    locals,         \* processedCount / successCount / errorCount of the background task
    bgPc,           \* background task: "idle" | "iterating" | "body" | "announce" |
                    \*                  "completed" | "failed"
    genPc,          \* generator: "init" | "seeding" | "loop" | "await" | "yield" | "done" |
                    \*            "thrown" | "returned"
    seen,           \* scrapeWebsite: const seen = new Set<string>()
    queue,          \* scrapeWebsite: const queue = []
    processed,      \* scrapeWebsite: let processed = 0
    batch,          \* targets of the current batch
    task,           \* state of each promise of the batch: "delay" | "fetch" | "resolved" | "rejected"
    results,        \* value each promise resolved with
    yieldIdx,       \* position of the for..of loop over results
    current,        \* the page the consumer holds (scrapedPage)
    docs,           \* number of documents saved by storage.createDocument
    fetchLog,       \* history: per URL, the number of fetches issued for it
    progressLog,    \* history: per URL, the statuses onProgress was invoked with, in order
    yielded,        \* history: the pages yielded
    batchNo,        \* history: number of batches taken
    settled,        \* history: number of per-target fetches settled
    failedTargets,  \* history: number of targets whose fetch threw or answered not ok
    cbThrows,       \* history: number of onProgress invocations that threw
    catchThrows,    \* history: onProgress invocations that threw inside the catch handler
    seedCount,      \* history: number of categories extractCategories returned (-1 before)
    settleOrder,    \* history: the promises of the batch in the order their fetches settled
    sendThrows,     \* history: broadcasts outside onProgress that threw
    exited,         \* the process has ended on the unhandled rejection of the background task
    entities,       \* MemStorage.entities, in insertion order; an id is a position
    nlpRun,         \* per scrape run, the consumer's place in the "Save entities" loop
    exports,        \* MemStorage.exports, in insertion order; an id is a position
    exportFiles,    \* (global as any).exportFiles: export id -> file content
    exportTask,     \* per export, the background task: its place and its fileContent
    exportReply,    \* status of the last response of POST /api/projects/:id/export, 0 if none
    download,       \* the last response of GET /api/exports/:id/download
    deleteReply,    \* status of the last response of DELETE /api/projects/:id, 0 if none
    neighbors       \* a call of getNodeNeighbors: its arguments and, once returned, its result

crawlVars == <<httpStatus, config, project, locals, bgPc, genPc, seen, queue, processed,
               batch, task, results, yieldIdx, current, docs, fetchLog, progressLog,
               yielded, batchNo, settled, failedTargets, cbThrows, catchThrows, seedCount,
               settleOrder, sendThrows, exited>>

nlpVars == <<entities, nlpRun>>
exportVars == <<exports, exportFiles, exportTask, exportReply, download>>

auxVars == <<nlpVars, exportVars, deleteReply, neighbors>>

vars == <<crawlVars, auxVars>>

-----------------------------------------------------------------------------
(* Bounds of the model *)

WorkersBound == 2       \* maxWorkers explored in 1..WorkersBound, and 1.5
DepthBound == 2         \* maxDepth explored in 1..DepthBound, and 1.5
MaxAnchors == 2         \* anchors on a fetched page
MaxThrows == 2          \* onProgress invocations that throw in one run
MaxBatches == 8         \* cap of the batch counter; a run takes a batch per page at most
MaxPages == 3           \* pages whose entities the runs save, all runs together
MaxMatches == 2         \* matches of the entity patterns in one document
MaxExports == 2         \* exports requested
MaxEdges == 2           \* edges of a graph
MaxHops == 2            \* depth argument of getNodeNeighbors, in 1..MaxHops

(* scrapingConfigSchema *)
SchemaMinDepth == 1
SchemaMaxDepth == 5
SchemaMinWorkers == 1
SchemaMaxWorkers == 50
SchemaMinDelay == 0
SchemaMaxDelay == 10000
DefaultDelay == 1000

-----------------------------------------------------------------------------
(* Numbers.  The schema takes any number between its bounds, so maxDepth   *)
(* and maxWorkers are kept in halves: 2 is 1, 3 is 1.5                     *)

\* the integer n, in halves
Num(n) == 2 * n

\* ToIntegerOrInfinity of a number in halves, as Array.prototype.splice
\* applies it to its deleteCount
Truncate(x) == x \div 2

-----------------------------------------------------------------------------
(* Strings *)

BoundedSeq(S, n) == UNION {[1..k -> S] : k \in 0..n}

\* String.prototype.includes
Includes(s, d) ==
    \E i \in 1..(Len(s) + 1) :
        /\ i + Len(d) - 1 <= Len(s)
        /\ SubSeq(s, i, i + Len(d) - 1) = d

\* String.prototype.startsWith
StartsWith(s, p) == Len(s) >= Len(p) /\ SubSeq(s, 1, Len(p)) = p

\* String.prototype.toLowerCase, on the alphabet of the model
LowerChar(c) == IF c = "E" THEN "e" ELSE IF c = "B" THEN "b" ELSE c
ToLowerCase(s) == [i \in 1..Len(s) |-> LowerChar(s[i])]

\* sanitizeFilename: name.replace(/[\\/*?:"<>|]/g, '_')
ReservedChars == {"\\", "/", "*", "?", ":", "\"", "<", ">", "|"}
sanitizeFilename(name) ==
    [i \in 1..Len(name) |-> IF name[i] \in ReservedChars THEN "_" ELSE name[i]]

\* getDomain: new URL(url).hostname; a URL here is host ++ "/" ++ path
getDomain(url) ==
    IF \E i \in 1..Len(url) : url[i] = "/"
    THEN LET i == CHOOSE k \in 1..Len(url) :
                     url[k] = "/" /\ \A j \in 1..(k - 1) : url[j] # "/"
         IN  SubSeq(url, 1, i - 1)
    ELSE <<>>

\* [...new Set(links)]: first occurrences, in order
Dedup(s) ==
    LET F[i \in 0..Len(s)] ==
            IF i = 0 THEN <<>>
            ELSE IF \E j \in 1..(i - 1) : s[j] = s[i]
                 THEN F[i - 1]
                 ELSE Append(F[i - 1], s[i])
    IN  F[Len(s)]

-----------------------------------------------------------------------------
(* The site *)

RootUrl == <<"e", "/">>             \* the seed: host "e"
PageA == <<"e", "/", "a">>
Foreign == <<"v", "/">>             \* another host
ForeignRef == <<"v", "/", "e">>     \* another host, the seed's hostname in the path

Urls == {RootUrl, PageA, Foreign, ForeignRef}

Texts == {<<>>, <<"E", "d", "i", "t">>, <<"s">>, <<"?">>}

Anchors == [text : Texts, href : Urls]

\* what fetch() settles with: a thrown network error / timeout, or a response
ThrownResponse == [threw |-> TRUE, ok |-> FALSE, anchors |-> <<>>]
HttpResponses(texts) ==
    [threw : {FALSE}, ok : BOOLEAN, anchors : BoundedSeq([text : texts, href : Urls], MaxAnchors)]
RootResponses == {ThrownResponse} \cup HttpResponses(Texts)
\* scrapePage does not read the anchor texts, and [...new Set(links)] leaves
\* of a repeated href its first occurrence, so the pages drawn list each href
\* once; an error page is drawn with one link at most
PageResponses ==
    {ThrownResponse}
        \cup {r \in HttpResponses({<<"s">>}) :
                 /\ ~r.ok => Len(r.anchors) <= 1
                 /\ \A i, j \in 1..Len(r.anchors) :
                        r.anchors[i].href = r.anchors[j].href => i = j}

\* onProgress throwing in the try block, and then again in the catch handler
Throws == {<<FALSE, FALSE>>, <<TRUE, FALSE>>, <<TRUE, TRUE>>}

\* one site of seven pages on the seed's host: the root lists the sections
\* a, b and d; a links to c; d links to f and g; c links to g
PageB == <<"e", "/", "b">>
PageC == <<"e", "/", "c">>
PageD == <<"e", "/", "d">>
PageF == <<"e", "/", "f">>
PageG == <<"e", "/", "g">>
SiteUrls == {RootUrl, PageA, PageB, PageC, PageD, PageF, PageG}
AllUrls == Urls \cup SiteUrls

SiteAnchor(text, href) == [text |-> text, href |-> href]
SiteAnchors(url) ==
    IF url = RootUrl
    THEN <<SiteAnchor(<<"s">>, PageA), SiteAnchor(<<"t">>, PageB), SiteAnchor(<<"u">>, PageD)>>
    ELSE IF url = PageA THEN <<SiteAnchor(<<"s">>, PageC)>>
    ELSE IF url = PageD THEN <<SiteAnchor(<<"s">>, PageF), SiteAnchor(<<"s">>, PageG)>>
    ELSE IF url = PageC THEN <<SiteAnchor(<<"s">>, PageG)>>
    ELSE <<>>

\* what a fetch of url settles with on that site: every page answers 200
SiteResponse(url) == [threw |-> FALSE, ok |-> TRUE, anchors |-> SiteAnchors(url)]

-----------------------------------------------------------------------------
(* ScraperService: pure parts *)

NullPage == [isNull |-> TRUE, url |-> <<>>, depth |-> 0, category |-> <<>>, links |-> <<>>]

\* the fields of a page that the generator's caller is followed on
PageRecord(page) == [isNull |-> page.isNull, url |-> page.url, depth |-> page.depth,
                     category |-> page.category]
NoPage == PageRecord(NullPage)

\* the same-domain test applied to a resolved link
DomainFilter(fullUrl, domain) == Includes(fullUrl, domain)

\* hrefs of a page that pass the filter, in document order
FilteredLinks(anchors, domain) ==
    LET F[i \in 0..Len(anchors)] ==
            IF i = 0 THEN <<>>
            ELSE IF DomainFilter(anchors[i].href, domain)
                 THEN Append(F[i - 1], anchors[i].href)
                 ELSE F[i - 1]
    IN  F[Len(anchors)]

\* variant: response.ok not tested
scrapePageIgnoresStatus(resp, url, depth, domain, category) ==
    IF resp.threw
    THEN NullPage
    ELSE [isNull |-> FALSE, url |-> url, depth |-> depth, category |-> category,
          links |-> Dedup(FilteredLinks(resp.anchors, domain))]

\* scrapePage: null when fetch throws or the response is not ok
scrapePage(resp, url, depth, domain, category) ==
    IF resp.threw \/ ~resp.ok
    THEN NullPage
    ELSE [isNull |-> FALSE, url |-> url, depth |-> depth, category |-> category,
          links |-> Dedup(FilteredLinks(resp.anchors, domain))]

Misc == <<"m", "i", "s", "c">>
EditPrefix == <<"e", "d", "i", "t">>

\* the anchors extractCategories keeps
CategoryAnchor(a, domain) ==
    /\ a.text # <<>>
    /\ ~StartsWith(ToLowerCase(a.text), EditPrefix)
    /\ DomainFilter(a.href, domain)

\* categories[cleanText] = link: a later link replaces an earlier one of the
\* same key, the key keeps its first position (Object.entries order)
SetCategory(cats, key, link) ==
    IF \E i \in 1..Len(cats) : cats[i].category = key
    THEN [i \in 1..Len(cats) |->
              IF cats[i].category = key THEN [category |-> key, url |-> link] ELSE cats[i]]
    ELSE Append(cats, [category |-> key, url |-> link])

\* extractCategories: {} when fetch throws; response.ok is not looked at
extractCategories(resp, domain) ==
    IF resp.threw
    THEN <<>>
    ELSE LET as == resp.anchors
             F[i \in 0..Len(as)] ==
                 IF i = 0 THEN <<>>
                 ELSE IF CategoryAnchor(as[i], domain)
                      THEN LET clean == sanitizeFilename(as[i].text)
                               key == IF clean = <<>> THEN Misc ELSE clean
                           IN  SetCategory(F[i - 1], key, as[i].href)
                      ELSE F[i - 1]
         IN  F[Len(as)]

-----------------------------------------------------------------------------
(* scrapeWebsite: frontier bookkeeping *)

\* variant: the seen test dropped
NotSeenAlways(url, seenSet) == TRUE

\* !seen.has(url)
NotSeen(url, seenSet) == url \notin seenSet

\* if (!seen.has(url)) { seen.add(url); queue.push({url, depth, category}) }
Enqueue(fr, url, depth, category) ==
    IF NotSeen(url, fr.seen)
    THEN [seen |-> fr.seen \cup {url},
          queue |-> Append(fr.queue, [url |-> url, depth |-> depth, category |-> category])]
    ELSE fr

\* variant: the categories queued one hop below the root
SeedQueueDepthOne(categories, fr) ==
    LET F[i \in 0..Len(categories)] ==
            IF i = 0 THEN fr
            ELSE Enqueue(F[i - 1], categories[i].url, 1, categories[i].category)
    IN  F[Len(categories)]

\* Object.entries(categories).forEach(...): every category at depth 0
SeedQueue(categories, fr) ==
    LET F[i \in 0..Len(categories)] ==
            IF i = 0 THEN fr
            ELSE Enqueue(F[i - 1], categories[i].url, 0, categories[i].category)
    IN  F[Len(categories)]

\* if (depth < config.maxDepth)
ShouldFollow(depth, maxDepth) == Num(depth) < maxDepth

\* result.links.forEach(...): every link at depth + 1
OfferLinks(links, depth, category, fr) ==
    LET F[i \in 0..Len(links)] ==
            IF i = 0 THEN fr
            ELSE Enqueue(F[i - 1], links[i], depth + 1, category)
    IN  F[Len(links)]

\* variant: the loop test off by one
LoopConditionInclusive(q) == Len(q) >= 0

\* while (queue.length > 0)
LoopCondition(q) == Len(q) > 0

\* variant: splice without a delete count takes the whole queue
BatchSizeUnlimited(q, maxWorkers) == Len(q)

\* queue.splice(0, config.maxWorkers): the removed head
BatchSize(q, maxWorkers) ==
    IF Len(q) < Truncate(maxWorkers) THEN Len(q) ELSE Truncate(maxWorkers)

SpliceTaken(q, maxWorkers) == SubSeq(q, 1, BatchSize(q, maxWorkers))
SpliceRest(q, maxWorkers) == SubSeq(q, BatchSize(q, maxWorkers) + 1, Len(q))

\* variant: a null result rethrown instead of reported
TaskOutcomeRethrow(resultIsNull, threwInTry, threwInCatch) ==
    IF threwInTry
    THEN IF threwInCatch THEN "rejected" ELSE "null"
    ELSE IF resultIsNull THEN "rejected" ELSE "page"

\* how the promise of one target settles, given whether scrapePage returned
\* null, whether onProgress threw in the try block and whether it threw again
\* in the catch handler
TaskOutcome(resultIsNull, threwInTry, threwInCatch) ==
    IF threwInTry
    THEN IF threwInCatch THEN "rejected" ELSE "null"
    ELSE IF resultIsNull THEN "null" ELSE "page"

-----------------------------------------------------------------------------
(* routes.ts: the progress callback and MemStorage *)

\* createProject: status defaults to 'pending', counters start at 0
createProject(status) ==
    [status |-> IF status = "" THEN "pending" ELSE status,
     totalUrls |-> 0, processedUrls |-> 0, successfulUrls |-> 0, failedUrls |-> 0]

\* variant: the else branch of the callback missing
ProgressCallbackDropsError(loc, status, totalProcessed) ==
    [processedCount |-> totalProcessed,
     successCount |-> IF status = "success" THEN loc.successCount + 1 ELSE loc.successCount,
     errorCount |-> loc.errorCount]

\* variant: the status of the snapshot not looked at
ProgressCallbackAllSuccess(loc, status, totalProcessed) ==
    [processedCount |-> totalProcessed,
     successCount |-> loc.successCount + 1,
     errorCount |-> loc.errorCount]

\* the counters of the callback after one invocation
ProgressCallback(loc, status, totalProcessed) ==
    [processedCount |-> totalProcessed,
     successCount |-> IF status = "success" THEN loc.successCount + 1 ELSE loc.successCount,
     errorCount |-> IF status = "success" THEN loc.errorCount ELSE loc.errorCount + 1]

\* storage.updateProject(project.id, {processedUrls, successfulUrls, failedUrls})
updateProjectCounters(p, loc) ==
    IF p.status = "none" THEN p
    ELSE [p EXCEPT !.processedUrls = loc.processedCount,
                   !.successfulUrls = loc.successCount,
                   !.failedUrls = loc.errorCount]

\* storage.updateProject(project.id, {status})
updateProjectStatus(p, status) ==
    IF p.status = "none" THEN p ELSE [p EXCEPT !.status = status]

\* z.string().url(): new URL(s) does not throw; a URL here is host ++ "/" ++
\* path, so a string with no host before its first "/" is not one
IsUrl(s) == getDomain(s) # <<>>

\* variant: maxWorkers without its .min(1)
ValidConfigNoMinWorkers(c) ==
    /\ IsUrl(c.targetUrl)
    /\ c.maxDepth >= Num(SchemaMinDepth) /\ c.maxDepth <= Num(SchemaMaxDepth)
    /\ c.maxWorkers <= Num(SchemaMaxWorkers)
    /\ c.delay >= SchemaMinDelay /\ c.delay <= SchemaMaxDelay

\* scrapingConfigSchema.parse
ValidConfig(c) ==
    /\ IsUrl(c.targetUrl)
    /\ c.maxDepth >= Num(SchemaMinDepth) /\ c.maxDepth <= Num(SchemaMaxDepth)
    /\ c.maxWorkers >= Num(SchemaMinWorkers) /\ c.maxWorkers <= Num(SchemaMaxWorkers)
    /\ c.delay >= SchemaMinDelay /\ c.delay <= SchemaMaxDelay

-----------------------------------------------------------------------------
(* State machine *)

NoConfig == [targetUrl |-> <<>>, maxDepth |-> 0, maxWorkers |-> 0, delay |-> 0,
             extractEntities |-> FALSE, buildRelationships |-> FALSE]
NoProject == [status |-> "none", totalUrls |-> 0, processedUrls |-> 0,
              successfulUrls |-> 0, failedUrls |-> 0]
NoLocals == [processedCount |-> 0, successCount |-> 0, errorCount |-> 0]

-----------------------------------------------------------------------------
(* Entities: NLPService.extractEntities and MemStorage's entity table *)

\* the place of s[i] once s is sorted by descending rank of its elements;
\* Array.prototype.sort is stable
SortedPlace(ranks, i) ==
    1 + Cardinality({j \in 1..Len(ranks) :
            \/ ranks[j] > ranks[i]
            \/ ranks[j] = ranks[i] /\ j < i})

\* Array.prototype.sort with (a, b) => rank(b) - rank(a), ranks[i] the rank of s[i]
SortDescending(s, ranks) ==
    [n \in 1..Len(s) |-> s[CHOOSE i \in 1..Len(s) : SortedPlace(ranks, i) = n]]

\* what the entity patterns match in a document, in the order of the pushes;
\* confidences are in tenths
PatternMatches ==
    {[text |-> <<"E">>, label |-> "PERSON", confidence |-> 8],
     [text |-> <<"e">>, label |-> "PERSON", confidence |-> 8]}

\* document titles; <<>> is the empty title
Titles == {<<>>, <<"e">>, <<"E">>, <<"B">>}

\* /^[A-Z]/
Capitals == {"B", "E"}

\* the title is pushed last, as a TOPIC, if it starts with a capital
TitleEntity(title) ==
    IF title # <<>> /\ title[1] \in Capitals
    THEN <<[text |-> title, label |-> "TOPIC", confidence |-> 9]>>
    ELSE <<>>

\* variant: the duplicates are kept
UniqueEntitiesKeepsAll(es) == es

\* Array.from(new Map(entities.map(e => [e.text.toLowerCase(), e])).values()):
\* a key keeps the place of its first entry and the value of its last
UniqueEntities(es) ==
    LET key(i) == ToLowerCase(es[i].text)
        keys == Dedup([i \in 1..Len(es) |-> key(i)])
        last(k) == CHOOSE i \in 1..Len(es) :
                       key(i) = k /\ \A j \in (i + 1)..Len(es) : key(j) # k
    IN  [n \in 1..Len(keys) |-> es[last(keys[n])]]

extractEntities(matches, title) ==
    LET uniqueEntities == UniqueEntities(matches \o TitleEntity(title))
    IN  SortDescending(uniqueEntities,
                       [i \in 1..Len(uniqueEntities) |-> uniqueEntities[i].confidence])

\* entity => entity.projectId === projectId
OfProject(e, projectId) == e.projectId = projectId

\* MemStorage.getEntitiesByProject
getEntitiesByProject(store, projectId) ==
    LET own == SelectSeq(store, LAMBDA e : OfProject(e, projectId))
    IN  SortDescending(own, [i \in 1..Len(own) |-> own[i].frequency])

NoEntity == [id |-> 0, projectId |-> 0, name |-> <<>>, type |-> "",
             frequency |-> 0, documentIds |-> <<>>]

\* .find(e => e.name === entityData.text && e.type === entityData.label)
FindEntity(list, entityData) ==
    LET hits == {i \in 1..Len(list) :
                    list[i].name = entityData.text /\ list[i].type = entityData.label}
    IN  IF hits = {} THEN NoEntity
        ELSE list[CHOOSE i \in hits : \A j \in hits : i <= j]

\* MemStorage.createEntity; the fresh id is the position in the table
createEntity(store, projectId, entityData, documentId) ==
    Append(store, [id |-> Len(store) + 1, projectId |-> projectId,
                   name |-> entityData.text, type |-> entityData.label,
                   frequency |-> 1, documentIds |-> <<documentId>>])

\* MemStorage.updateEntity with { frequency, documentIds }
updateEntity(store, id, frequency, documentIds) ==
    IF id \notin 1..Len(store) THEN store
    ELSE [store EXCEPT ![id].frequency = frequency, ![id].documentIds = documentIds]

\* for (const entityData of nlpResults.entities): the entity of that name and
\* type is updated if the project has one, created otherwise
RECURSIVE SaveEntities(_, _, _, _)
SaveEntities(store, projectId, todo, documentId) ==
    IF todo = <<>> THEN store
    ELSE LET existingEntity ==
                 FindEntity(getEntitiesByProject(store, projectId), Head(todo))
             saved ==
                 IF existingEntity # NoEntity
                 THEN updateEntity(store, existingEntity.id,
                                   existingEntity.frequency + 1,
                                   Append(existingEntity.documentIds, documentId))
                 ELSE createEntity(store, projectId, Head(todo), documentId)
         IN  SaveEntities(saved, projectId, Tail(todo), documentId)

\* title and pattern matches of a page the crawl yields, drawn when the
\* consumer reads them: a page that names nothing, its title in lower case
\* (as its url is, the title of a page without one), and a page titled "B"
\* in which a pattern matches "E"
PageTexts ==
    {[matches |-> <<>>, title |-> <<"e">>],
     [matches |-> <<[text |-> <<"E">>, label |-> "PERSON", confidence |-> 8]>>,
      title |-> <<"B">>]}

\* scrape runs in progress at once; run r fills project r
Runs == {1, 2}

NoDocument == <<0, 0>>
IdleRun == [pc |-> "page", saved |-> 0, document |-> NoDocument, todo |-> <<>>,
            existing |-> NoEntity]

-----------------------------------------------------------------------------
(* Exports: exportRequestSchema, the generators and the export table.      *)
(* A file is the sequence of its lines; the empty file is the empty string *)

\* z.enum(["csv", "excel", "json", "cypher"])
SchemaFormats == {"csv", "excel", "json", "cypher"}

\* bodies offered to POST /api/projects/:id/export, one outside the enum included
ExportRequests ==
    [format : SchemaFormats \cup {"xml"}, includeContent : BOOLEAN,
     includeRelationships : BOOLEAN]

ValidExportRequest(req) == req.format \in SchemaFormats

\* the documents and entity names of the exported project
ProjectDocuments ==
    BoundedSeq({[url |-> <<"e">>, content |-> ""], [url |-> <<"b">>, content |-> "x"]},
               MaxPages - 1)
ProjectEntities == BoundedSeq({<<"E">>}, 1)

\* generateCSV: the header row, then a row per document
generateCSV(documents, options) ==
    LET headers == <<"URL", "Title", "Category", "Word Count", "Created At">>
                       \o (IF options.includeContent THEN <<"Content">> ELSE <<>>)
        row(doc) == <<doc.url, "title", "", 0, "date">>
                       \o (IF options.includeContent THEN <<doc.content>> ELSE <<>>)
    IN  <<headers>> \o [i \in 1..Len(documents) |-> row(documents[i])]

\* JSON.stringify({ documents, entities, relationships }, null, 2)
stringifyExport(documents, ents, options) ==
    <<"{">>
        \o [i \in 1..Len(documents) |->
                IF options.includeContent THEN documents[i]
                ELSE [url |-> documents[i].url]]
        \o (IF options.includeRelationships THEN ents ELSE <<>>)
        \o <<"}">>

\* generateFullGraphCypher: queries.join(';\n') + ';' under each of the two comments
generateFullGraphCypher(ents) ==
    <<"// Create entities">> \o [i \in 1..Len(ents) |-> <<"MERGE", ents[i]>>] \o <<";">>
        \o <<"// Create relationships", ";">>

\* let fileContent = ''; switch (exportRequest.format) { case 'csv' ... 'json' ... 'cypher' }
GenerateFile(req, documents, ents) ==
    IF req.format = "csv" THEN generateCSV(documents, req)
    ELSE IF req.format = "json" THEN stringifyExport(documents, ents, req)
    ELSE IF req.format = "cypher" THEN generateFullGraphCypher(ents)
    ELSE <<>>

NoDownload == [id |-> 0, status |-> 0, body |-> <<>>]

-----------------------------------------------------------------------------
(* GraphBuilderService.getNodeNeighbors.  A node is its id; an edge's id is *)
(* its position in graphData.edges (`edge_${index}`)                        *)

GraphNodes == {"a", "b", "c"}

\* graphs whose edges join nodes of the graph
Graphs ==
    {g \in [nodes : SUBSET GraphNodes,
            edges : BoundedSeq([from : GraphNodes, to : GraphNodes], MaxEdges)] :
        \A i \in 1..Len(g.edges) : g.edges[i].from \in g.nodes /\ g.edges[i].to \in g.nodes}

\* calls on a node of the graph; the route passes parseInt(req.query.depth) || 1
NeighborCalls ==
    {c \in [graphData : Graphs, nodeId : GraphNodes, depth : 1..MaxHops] :
        c.nodeId \in c.graphData.nodes}

\* Map.prototype.set on the keys of a Map, kept in insertion order
MapSet(keys, k) ==
    IF \E i \in 1..Len(keys) : keys[i] = k THEN keys ELSE Append(keys, k)

RECURSIVE traverse(_, _, _, _, _)
RECURSIVE forEachEdge(_, _, _, _, _, _)

\* const traverse = (currentNodeId, currentDepth) => { ... }, on the closure's
\* visited, resultNodes and resultEdges
traverse(st, graphData, depth, currentNodeId, currentDepth) ==
    IF currentDepth > depth \/ currentNodeId \in st.visited THEN st
    ELSE forEachEdge([st EXCEPT !.visited = @ \cup {currentNodeId},
                                !.resultNodes = IF currentNodeId \in graphData.nodes
                                                THEN MapSet(@, currentNodeId) ELSE @],
                     graphData, depth, currentNodeId, currentDepth, 1)

\* graphData.edges.forEach(edge => { ... }), from the k-th edge on
forEachEdge(st, graphData, depth, currentNodeId, currentDepth, k) ==
    IF k > Len(graphData.edges) THEN st
    ELSE LET edge == graphData.edges[k]
             neighborId == IF edge.from = currentNodeId THEN edge.to ELSE edge.from
             withEdge == [st EXCEPT !.resultEdges = MapSet(@, k)]
             withNode == [withEdge EXCEPT !.resultNodes = MapSet(@, neighborId)]
             after ==
                 IF edge.from # currentNodeId /\ edge.to # currentNodeId THEN st
                 ELSE IF neighborId \notin graphData.nodes THEN withEdge
                 ELSE IF currentDepth < depth
                      THEN traverse(withNode, graphData, depth, neighborId, currentDepth + 1)
                      ELSE withNode
         IN  forEachEdge(after, graphData, depth, currentNodeId, currentDepth, k + 1)

getNodeNeighbors(nodeId, graphData, depth) ==
    LET st == traverse([visited |-> {}, resultNodes |-> <<>>, resultEdges |-> <<>>],
                       graphData, depth, nodeId, 0)
    IN  [nodes |-> st.resultNodes, edges |-> st.resultEdges]

NoCall == [graphData |-> [nodes |-> {}, edges |-> <<>>], nodeId |-> "", depth |-> 0]
NoResult == [nodes |-> <<"none">>, edges |-> <<>>]
NoNeighbors == [call |-> NoCall, result |-> NoResult]

\* request bodies with whole numbers, values outside the schema included
WholeRequests ==
    [targetUrl : {RootUrl},
     maxDepth : {Num(d) : d \in (0..DepthBound) \cup {SchemaMaxDepth + 1}},
     maxWorkers : {Num(w) : w \in (0..WorkersBound) \cup {SchemaMaxWorkers + 1}},
     delay : {-1, 0, SchemaMaxDelay + 1},
     extractEntities : {FALSE},
     buildRelationships : {FALSE}]

\* a request body of a small crawl
SmallRequest ==
    [targetUrl |-> RootUrl, maxDepth |-> Num(1), maxWorkers |-> Num(1), delay |-> 0,
     extractEntities |-> FALSE, buildRelationships |-> FALSE]

\* request bodies with the default delay
DelayedRequests ==
    {[SmallRequest EXCEPT !.maxWorkers = Num(w), !.delay = DefaultDelay] :
         w \in 1..WorkersBound}

\* request bodies with maxDepth 1.5 or maxWorkers 1.5
FractionalRequests ==
    {[SmallRequest EXCEPT !.maxDepth = Num(1) + 1],
     [SmallRequest EXCEPT !.maxWorkers = Num(1) + 1]}

\* request bodies whose targetUrl is "" or "e"
MalformedRequests ==
    {[SmallRequest EXCEPT !.targetUrl = <<>>],
     [SmallRequest EXCEPT !.targetUrl = <<"e">>]}

\* request bodies that ask for the entities or for the relationships
NlpRequests ==
    {[SmallRequest EXCEPT !.extractEntities = TRUE],
     [SmallRequest EXCEPT !.buildRelationships = TRUE]}

\* request bodies offered to POST /api/scrape/start
Requests ==
    WholeRequests \cup DelayedRequests \cup FractionalRequests \cup MalformedRequests
        \cup NlpRequests

\* the state once the server is constructed, but for the call of getNodeNeighbors
Constructed ==
    /\ httpStatus = 0
    /\ config = NoConfig
    /\ project = NoProject
    /\ locals = NoLocals
    /\ bgPc = "idle"
    /\ genPc = "init"
    /\ seen = {}
    /\ queue = <<>>
    /\ processed = 0
    /\ batch = <<>>
    /\ task = <<>>
    /\ results = <<>>
    /\ yieldIdx = 1
    /\ current = NoPage
    /\ docs = 0
    /\ fetchLog = [u \in AllUrls |-> 0]
    /\ progressLog = [u \in AllUrls |-> <<>>]
    /\ yielded = {}
    /\ batchNo = 0
    /\ settled = 0
    /\ failedTargets = 0
    /\ cbThrows = 0
    /\ catchThrows = 0
    /\ seedCount = -1
    /\ settleOrder = <<>>
    /\ sendThrows = 0
    /\ exited = FALSE
    /\ entities = <<>>
    /\ nlpRun = [r \in Runs |-> IdleRun]
    /\ exports = <<>>
    /\ exportFiles = <<>>
    /\ exportTask = <<>>
    /\ exportReply = 0
    /\ download = NoDownload
    /\ deleteReply = 0

Init == Constructed /\ neighbors = NoNeighbors

\* POST /api/scrape/start with a body the schema rejects: 400, nothing else
RejectScrape(req) ==
    /\ httpStatus = 0
    /\ ~ValidConfig(req)
    /\ httpStatus' = 400
    /\ UNCHANGED <<config, project, locals, bgPc, genPc, seen, queue, processed,
                   batch, task, results, yieldIdx, current, docs, fetchLog, progressLog,
                   yielded, batchNo, settled, failedTargets, cbThrows, catchThrows,
                   seedCount, settleOrder,
                   sendThrows, exited, auxVars>>

\* POST /api/scrape/start: the project is created with status 'running', the
\* background task starts iterating, the generator runs up to the await of
\* extractCategories, which has issued the fetch of the root
StartScrape(req) ==
    /\ httpStatus = 0
    /\ ValidConfig(req)
    /\ httpStatus' = 200
    /\ config' = req
    /\ project' = createProject("running")
    /\ locals' = NoLocals
    /\ bgPc' = "iterating"
    /\ genPc' = "seeding"
    /\ seen' = {}
    /\ queue' = <<>>
    /\ fetchLog' = [fetchLog EXCEPT ![req.targetUrl] = @ + 1]
    /\ UNCHANGED <<processed, batch, task, results, yieldIdx, current, docs, progressLog,
                   yielded, batchNo, settled, failedTargets, cbThrows, catchThrows,
                   seedCount, settleOrder,
                   sendThrows, exited, auxVars>>

\* the fetch of the root settles with resp; the categories are queued at depth 0
Seed(resp) ==
    /\ genPc = "seeding"
    /\ LET categories == extractCategories(resp, getDomain(config.targetUrl))
           fr == SeedQueue(categories, [seen |-> seen, queue |-> queue])
       IN  /\ seen' = fr.seen
           /\ queue' = fr.queue
           /\ seedCount' = Len(categories)
    /\ processed' = 0
    /\ genPc' = "loop"
    /\ UNCHANGED <<httpStatus, config, project, locals, bgPc, batch, task, results,
                   yieldIdx, current, docs, fetchLog, progressLog, yielded, batchNo,
                   settled, failedTargets, cbThrows, catchThrows, settleOrder,
                   sendThrows, exited, auxVars>>

\* the fetch log after a fetch of every target of targets was issued
LogFetches(log, targets) ==
    [u \in AllUrls |-> log[u] + Cardinality({i \in 1..Len(targets) : targets[i].url = u})]

\* top of the while loop with work left: splice a batch and start its promises;
\* with delay = 0 every promise runs straight into its fetch
TakeBatch ==
    /\ genPc = "loop"
    /\ LoopCondition(queue)
    /\ batchNo < MaxBatches
    /\ batch' = SpliceTaken(queue, config.maxWorkers)
    /\ queue' = SpliceRest(queue, config.maxWorkers)
    /\ task' = [i \in 1..Len(batch') |-> IF config.delay > 0 THEN "delay" ELSE "fetch"]
    /\ results' = [i \in 1..Len(batch') |-> NoPage]
    /\ fetchLog' = IF config.delay > 0 THEN fetchLog ELSE LogFetches(fetchLog, batch')
    /\ batchNo' = batchNo + 1
    /\ genPc' = "await"
    /\ settleOrder' = <<>>
    /\ UNCHANGED <<httpStatus, config, project, locals, bgPc, seen, processed, yieldIdx,
                   current, docs, progressLog, yielded, settled, failedTargets, cbThrows,
                   catchThrows, seedCount,
                   sendThrows, exited, auxVars>>

\* the delay timer of promise i fires (timers of equal delay fire in creation
\* order) and the promise calls scrapePage, which issues the fetch
StartFetch(i) ==
    /\ ~exited
    /\ i \in 1..Len(batch)
    /\ task[i] = "delay"
    /\ \A j \in 1..(i - 1) : task[j] # "delay"
    /\ task' = [task EXCEPT ![i] = "fetch"]
    /\ fetchLog' = [fetchLog EXCEPT ![batch[i].url] = @ + 1]
    /\ UNCHANGED <<httpStatus, config, project, locals, bgPc, genPc, seen, queue,
                   processed, batch, results, yieldIdx, current, docs, progressLog,
                   yielded, batchNo, settled, failedTargets, cbThrows, catchThrows,
                   seedCount, settleOrder,
                   sendThrows, exited, auxVars>>

\* the fetch of promise i settles with resp and the promise runs to its end:
\* processed++, onProgress, the links offered to the queue; onProgress throws
\* in the try block when threwInTry, and again in the catch handler when
\* threwInCatch
Settle(i, resp, threwInTry, threwInCatch) ==
    /\ ~exited
    /\ i \in 1..Len(batch)
    /\ task[i] = "fetch"
    /\ threwInCatch => threwInTry
    /\ cbThrows + (IF threwInTry THEN 1 ELSE 0) + (IF threwInCatch THEN 1 ELSE 0) <= MaxThrows
    /\ LET t == batch[i]
           result == scrapePage(resp, t.url, t.depth, getDomain(config.targetUrl), t.category)
           status1 == IF result.isNull THEN "error" ELSE "success"
           processed1 == processed + 1
           locals1 == ProgressCallback(locals, status1, processed1)
           processed2 == IF threwInTry THEN processed1 + 1 ELSE processed1
           locals2 == IF threwInTry THEN ProgressCallback(locals1, "error", processed2)
                                    ELSE locals1
           snaps == IF threwInTry THEN <<status1, "error">> ELSE <<status1>>
           outcome == TaskOutcome(result.isNull, threwInTry, threwInCatch)
           fr == IF ~result.isNull /\ ~threwInTry /\ ShouldFollow(t.depth, config.maxDepth)
                 THEN OfferLinks(result.links, t.depth, t.category,
                                 [seen |-> seen, queue |-> queue])
                 ELSE [seen |-> seen, queue |-> queue]
       IN  /\ processed' = processed2
           /\ locals' = locals2
           /\ project' = updateProjectCounters(project, locals2)
           /\ progressLog' = [progressLog EXCEPT ![t.url] = @ \o snaps]
           /\ seen' = fr.seen
           /\ queue' = fr.queue
           /\ task' = [task EXCEPT ![i] = IF outcome = "rejected" THEN "rejected"
                                                                   ELSE "resolved"]
           /\ results' = [results EXCEPT ![i] = IF outcome = "page" THEN PageRecord(result)
                                                                    ELSE NoPage]
           /\ failedTargets' = failedTargets + (IF resp.threw \/ ~resp.ok THEN 1 ELSE 0)
           /\ cbThrows' = cbThrows + (IF threwInTry THEN 1 ELSE 0)
                                   + (IF threwInCatch THEN 1 ELSE 0)
           /\ catchThrows' = catchThrows + (IF threwInCatch THEN 1 ELSE 0)
    /\ settled' = settled + 1
    /\ settleOrder' = Append(settleOrder, i)
    /\ UNCHANGED <<httpStatus, config, bgPc, genPc, batch, yieldIdx, current, docs,
                   fetchLog, yielded, batchNo, seedCount,
                   sendThrows, exited, auxVars>>

\* variant: Promise.race in place of Promise.all
PromiseAnyResolved(tasks) == \E i \in 1..Len(tasks) : tasks[i] = "resolved"

\* variant: the promises not awaited once their fetches are issued
PromiseAllStarted(tasks) == \A i \in 1..Len(tasks) : tasks[i] # "delay"

\* await Promise.all(promises) resolves when every promise resolved
PromiseAllResolved(tasks) == \A i \in 1..Len(tasks) : tasks[i] = "resolved"

\* Promise.all resolves: every promise of the batch resolved
BatchResolved ==
    /\ genPc = "await"
    /\ PromiseAllResolved(task)
    /\ genPc' = "yield"
    /\ yieldIdx' = 1
    /\ UNCHANGED <<httpStatus, config, project, locals, bgPc, seen, queue, processed,
                   batch, task, results, current, docs, fetchLog, progressLog, yielded,
                   batchNo, settled, failedTargets, cbThrows, catchThrows, seedCount,
                   settleOrder,
                   sendThrows, exited, auxVars>>

\* Promise.all rejects with the first rejected promise: the generator throws,
\* for await throws, the catch of the background task marks the project
\* failed and broadcasts scraping_error; when that broadcast throws, the task
\* rejects with no handler and node ends the process
RunFails(errorThrew) ==
    /\ genPc = "await"
    /\ \E i \in 1..Len(batch) : task[i] = "rejected"
    /\ genPc' = "thrown"
    /\ bgPc' = "failed"
    /\ project' = updateProjectStatus(project, "failed")
    /\ sendThrows' = sendThrows + (IF errorThrew THEN 1 ELSE 0)
    /\ exited' = errorThrew
    /\ UNCHANGED <<httpStatus, config, locals, seen, queue, processed, batch, task,
                   results, yieldIdx, current, docs, fetchLog, progressLog, yielded,
                   batchNo, settled, failedTargets, cbThrows, catchThrows, seedCount,
                   settleOrder, auxVars>>

\* variant: the results walked from the last to the first
NextResultBackwards(rest) == CHOOSE m \in rest : \A n \in rest : m >= n

\* for (const result of results): the next of the remaining results is the
\* one at the lowest position
NextResult(rest) == CHOOSE m \in rest : \A n \in rest : m <= n

\* for (const result of results) if (result) yield result: the generator runs
\* to the next non-null result and hands it to the consumer, or leaves the loop
YieldNext ==
    /\ genPc = "yield"
    /\ bgPc = "iterating"
    /\ LET rest == {k \in yieldIdx..Len(results) : ~results[k].isNull}
       IN  IF rest = {}
           THEN /\ genPc' = "loop"
                /\ UNCHANGED <<yieldIdx, current, bgPc, yielded>>
           ELSE LET k == NextResult(rest)
                IN  /\ yieldIdx' = k + 1
                    /\ current' = results[k]
                    /\ bgPc' = "body"
                    /\ yielded' = yielded \cup {results[k]}
                    /\ UNCHANGED genPc
    /\ UNCHANGED <<httpStatus, config, project, locals, seen, queue, processed, batch,
                   task, results, docs, fetchLog, progressLog, batchNo, settled,
                   failedTargets, cbThrows, catchThrows, seedCount,
                   settleOrder,
                   sendThrows, exited, auxVars>>

\* a broadcast of the consumer throwing, and then the broadcast of
\* scraping_error in the catch block
BroadcastThrows == {<<FALSE, FALSE>>, <<TRUE, FALSE>>, <<TRUE, TRUE>>}

\* body of the for await loop: the document is saved, its entities are saved
\* if the configuration asks for entities or relationships, document_processed
\* is broadcast, then next() is called; when the broadcast throws, for await
\* closes the generator and the catch of the background task marks the
\* project failed and broadcasts scraping_error; when that throws too, the
\* task rejects with no handler and node ends the process.  The run fills
\* project 1; the awaits of the body resolve without I/O
ConsumePage(matches, title, threw, errorThrew) ==
    /\ bgPc = "body"
    /\ errorThrew => threw
    /\ docs' = docs + 1
    /\ nlpRun' = [nlpRun EXCEPT ![1].saved = @ + 1]
    /\ entities' = IF config.extractEntities \/ config.buildRelationships
                   THEN SaveEntities(entities, 1, extractEntities(matches, title),
                                     <<1, nlpRun[1].saved + 1>>)
                   ELSE entities
    /\ current' = NoPage
    /\ bgPc' = IF threw THEN "failed" ELSE "iterating"
    /\ genPc' = IF threw THEN "returned" ELSE genPc
    /\ project' = IF threw THEN updateProjectStatus(project, "failed") ELSE project
    /\ sendThrows' = sendThrows + (IF threw THEN 1 ELSE 0) + (IF errorThrew THEN 1 ELSE 0)
    /\ exited' = errorThrew
    /\ UNCHANGED <<httpStatus, config, locals, seen, queue, processed,
                   batch, task, results, yieldIdx, fetchLog, progressLog, yielded,
                   batchNo, settled, failedTargets, cbThrows, catchThrows, seedCount,
                   settleOrder, exportVars, deleteReply, neighbors>>

\* the while loop ends, the generator returns, the background task stores
\* status completed
Complete ==
    /\ genPc = "loop"
    /\ ~LoopCondition(queue)
    /\ genPc' = "done"
    /\ bgPc' = "announce"
    /\ project' = updateProjectStatus(project, "completed")
    /\ UNCHANGED <<httpStatus, config, locals, seen, queue, processed, batch, task,
                   results, yieldIdx, current, docs, fetchLog, progressLog, yielded,
                   batchNo, settled, failedTargets, cbThrows, catchThrows, seedCount,
                   settleOrder,
                   sendThrows, exited, auxVars>>

\* scraping_completed is broadcast; when the broadcast throws, the catch of
\* the background task stores status failed and broadcasts scraping_error;
\* when that throws too, the task rejects with no handler and node ends the
\* process
Announce(threw, errorThrew) ==
    /\ bgPc = "announce"
    /\ errorThrew => threw
    /\ bgPc' = IF threw THEN "failed" ELSE "completed"
    /\ project' = IF threw THEN updateProjectStatus(project, "failed") ELSE project
    /\ sendThrows' = sendThrows + (IF threw THEN 1 ELSE 0) + (IF errorThrew THEN 1 ELSE 0)
    /\ exited' = errorThrew
    /\ UNCHANGED <<httpStatus, config, locals, genPc, seen, queue, processed, batch, task,
                   results, yieldIdx, current, docs, fetchLog, progressLog, yielded,
                   batchNo, settled, failedTargets, cbThrows, catchThrows, seedCount,
                   settleOrder, auxVars>>

\* the inputs of a step are drawn once the step can be taken
Next ==
    \/ httpStatus = 0 /\ \E req \in Requests : RejectScrape(req)
    \/ httpStatus = 0 /\ \E req \in Requests : StartScrape(req)
    \/ genPc = "seeding" /\ \E resp \in RootResponses : Seed(resp)
    \/ TakeBatch
    \/ \E i \in 1..Len(batch) : StartFetch(i)
    \/ \E i \in 1..Len(batch) :
           /\ task[i] = "fetch"
           /\ \E resp \in PageResponses, th \in Throws :
                  Settle(i, resp, th[1], th[2])
    \/ BatchResolved
    \/ \E errorThrew \in BOOLEAN : RunFails(errorThrew)
    \/ YieldNext
    \/ \E text \in PageTexts, th \in BroadcastThrows :
           ConsumePage(text.matches, text.title, th[1], th[2])
    \/ Complete
    \/ \E th \in BroadcastThrows : Announce(th[1], th[2])

Spec == Init /\ [][Next]_vars

\* the steps of a started run: continuations the event loop runs once they
\* are ready, timers that fire, and fetches, which settle within the 10 s of
\* AbortSignal.timeout
CrawlStep ==
    \/ genPc = "seeding" /\ \E resp \in RootResponses : Seed(resp)
    \/ TakeBatch
    \/ \E i \in 1..Len(batch) : StartFetch(i)
    \/ \E i \in 1..Len(batch) :
           /\ task[i] = "fetch"
           /\ \E resp \in PageResponses, th \in Throws :
                  Settle(i, resp, th[1], th[2])
    \/ BatchResolved
    \/ \E errorThrew \in BOOLEAN : RunFails(errorThrew)
    \/ YieldNext
    \/ \E text \in PageTexts, th \in BroadcastThrows :
           ConsumePage(text.matches, text.title, th[1], th[2])
    \/ Complete
    \/ \E th \in BroadcastThrows : Announce(th[1], th[2])

\* every fetch eventually settles and the consumer eventually finishes each page
FairSpec == Spec /\ WF_vars(CrawlStep)

\* a run over the site of SiteUrls: every fetch answers with the page of the
\* site, no broadcast throws; the order in which the fetches of a batch
\* settle is free
SiteNext ==
    \/ httpStatus = 0 /\ \E req \in Requests : RejectScrape(req)
    \/ httpStatus = 0 /\ \E req \in Requests : StartScrape(req)
    \/ genPc = "seeding" /\ Seed(SiteResponse(config.targetUrl))
    \/ TakeBatch
    \/ \E i \in 1..Len(batch) : StartFetch(i)
    \/ \E i \in 1..Len(batch) :
           task[i] = "fetch" /\ Settle(i, SiteResponse(batch[i].url), FALSE, FALSE)
    \/ BatchResolved
    \/ YieldNext
    \/ \E text \in PageTexts : ConsumePage(text.matches, text.title, FALSE, FALSE)
    \/ Complete
    \/ Announce(FALSE, FALSE)

SiteSpec == Init /\ [][SiteNext]_vars

-----------------------------------------------------------------------------
(* The body of the consumer loop, for several runs at once; each await of   *)
(* the body is a point where another run's continuation may run             *)

RECURSIVE SumSaved(_, _)
SumSaved(runs, rs) ==
    IF rs = {} THEN 0
    ELSE LET r == CHOOSE x \in rs : TRUE
         IN  runs[r].saved + SumSaved(runs, rs \ {r})

\* documents created so far
SavedPages(runs) == SumSaved(runs, Runs)

\* a page arrives: its document is created and nlpService.processDocument
\* returns the entities of the document
ProcessDocument(r, matches, title) ==
    /\ nlpRun[r].pc = "page"
    /\ SavedPages(nlpRun) < MaxPages
    /\ nlpRun' = [nlpRun EXCEPT ![r] =
                      [pc |-> "find", saved |-> @.saved + 1,
                       document |-> <<r, @.saved + 1>>,
                       todo |-> extractEntities(matches, title),
                       existing |-> NoEntity]]
    /\ UNCHANGED <<crawlVars, entities, exportVars, deleteReply, neighbors>>

\* await storage.getEntitiesByProject(project.id), then .find(...)
FindExisting(r) ==
    /\ nlpRun[r].pc = "find"
    /\ nlpRun[r].todo # <<>>
    /\ nlpRun' = [nlpRun EXCEPT ![r].pc = "save",
                                ![r].existing =
                                    FindEntity(getEntitiesByProject(entities, r),
                                               Head(nlpRun[r].todo))]
    /\ UNCHANGED <<crawlVars, entities, exportVars, deleteReply, neighbors>>

\* await storage.updateEntity(...) or await storage.createEntity(...), with
\* the entity as it was read
SaveEntity(r) ==
    /\ nlpRun[r].pc = "save"
    /\ LET existingEntity == nlpRun[r].existing
       IN  entities' =
               IF existingEntity # NoEntity
               THEN updateEntity(entities, existingEntity.id,
                                 existingEntity.frequency + 1,
                                 Append(existingEntity.documentIds, nlpRun[r].document))
               ELSE createEntity(entities, r, Head(nlpRun[r].todo), nlpRun[r].document)
    /\ nlpRun' = [nlpRun EXCEPT ![r].pc = "find", ![r].todo = Tail(@),
                                ![r].existing = NoEntity]
    /\ UNCHANGED <<crawlVars, exportVars, deleteReply, neighbors>>

\* the entities of the document are saved: the body ends, the next page is awaited
DocumentDone(r) ==
    /\ nlpRun[r].pc = "find"
    /\ nlpRun[r].todo = <<>>
    /\ nlpRun' = [nlpRun EXCEPT ![r].pc = "page", ![r].document = NoDocument]
    /\ UNCHANGED <<crawlVars, entities, exportVars, deleteReply, neighbors>>

EntityNext ==
    \/ \E r \in Runs, matches \in BoundedSeq(PatternMatches, MaxMatches), title \in Titles :
           ProcessDocument(r, matches, title)
    \/ \E r \in Runs : FindExisting(r)
    \/ \E r \in Runs : SaveEntity(r)
    \/ \E r \in Runs : DocumentDone(r)

EntitySpec == Init /\ [][EntityNext]_vars

-----------------------------------------------------------------------------
(* POST /api/projects/:id/export with its background task, and             *)
(* GET /api/exports/:id/download                                           *)

\* a continuation of a background task is waiting in the microtask queue
ExportTaskPending == \E id \in 1..Len(exportTask) : exportTask[id].pc # "done"

\* a body outside the schema: 400
RejectExport(req) ==
    /\ ~ExportTaskPending
    /\ ~ValidExportRequest(req)
    /\ exportReply' = 400
    /\ UNCHANGED <<crawlVars, nlpVars, deleteReply, neighbors, exports, exportFiles, exportTask, download>>

\* the record is created with status 'generating', the response is sent and
\* the background task starts
CreateExport(req) ==
    /\ ~ExportTaskPending
    /\ ValidExportRequest(req)
    /\ Len(exports) < MaxExports
    /\ exports' = Append(exports, [status |-> "generating", format |-> req.format])
    /\ exportTask' = Append(exportTask, [pc |-> "generate", request |-> req,
                                         fileContent |-> <<>>])
    /\ exportReply' = 200
    /\ UNCHANGED <<crawlVars, nlpVars, deleteReply, neighbors, exportFiles, download>>

\* the project's records are read, the file is generated and
\* storage.updateExport sets status 'ready'
GenerateExport(id, documents, ents) ==
    /\ exportTask[id].pc = "generate"
    /\ exportTask' = [exportTask EXCEPT
                         ![id].pc = "store",
                         ![id].fileContent =
                             GenerateFile(exportTask[id].request, documents, ents)]
    /\ exports' = [exports EXCEPT ![id].status = "ready"]
    /\ UNCHANGED <<crawlVars, nlpVars, deleteReply, neighbors, exportFiles, exportReply, download>>

\* exportFiles.set(exportRecord.id, fileContent)
StoreExportFile(id) ==
    /\ exportTask[id].pc = "store"
    /\ exportFiles' = [i \in DOMAIN exportFiles \cup {id} |->
                           IF i = id THEN exportTask[id].fileContent ELSE exportFiles[i]]
    /\ exportTask' = [exportTask EXCEPT ![id].pc = "done"]
    /\ UNCHANGED <<crawlVars, nlpVars, deleteReply, neighbors, exports, exportReply, download>>

\* GET /api/exports/:id/download; the handler starts once the continuations
\* queued before it have run
Download(id) ==
    /\ ~ExportTaskPending
    /\ download' =
           IF id \notin 1..Len(exports) \/ exports[id].status # "ready"
           THEN [id |-> id, status |-> 404, body |-> <<"Export not found or not ready">>]
           ELSE IF id \notin DOMAIN exportFiles \/ exportFiles[id] = <<>>
           THEN [id |-> id, status |-> 404, body |-> <<"File content not found">>]
           ELSE [id |-> id, status |-> 200, body |-> exportFiles[id]]
    /\ UNCHANGED <<crawlVars, nlpVars, deleteReply, neighbors, exports, exportFiles, exportTask, exportReply>>

ExportNext ==
    \/ \E req \in ExportRequests : RejectExport(req)
    \/ \E req \in ExportRequests : CreateExport(req)
    \/ \E id \in 1..Len(exportTask), documents \in ProjectDocuments,
          ents \in ProjectEntities : GenerateExport(id, documents, ents)
    \/ \E id \in 1..Len(exportTask) : StoreExportFile(id)
    \/ \E id \in 1..MaxExports : Download(id)

ExportSpec == Init /\ [][ExportNext]_vars

-----------------------------------------------------------------------------
(* DELETE /api/projects/:id while a run over the site is in progress *)

\* the run is not started, is over, or waits for a timer or a fetch: the
\* event loop takes the next request
AwaitingIO ==
    \/ genPc \in {"init", "seeding", "thrown", "returned"}
    \/ genPc = "done" /\ bgPc # "announce"
    \/ genPc = "await" /\ \E i \in 1..Len(task) : task[i] \in {"delay", "fetch"}

\* MemStorage.deleteProject: this.projects.delete(id); 404 if there was none
DeleteProject ==
    /\ ~exited
    /\ AwaitingIO
    /\ deleteReply' = IF project = NoProject THEN 404 ELSE 200
    /\ project' = NoProject
    /\ UNCHANGED <<httpStatus, config, locals, bgPc, genPc, seen, queue, processed,
                   batch, task, results, yieldIdx, current, docs, fetchLog, progressLog,
                   yielded, batchNo, settled, failedTargets, cbThrows, catchThrows,
                   seedCount, settleOrder, sendThrows, exited, nlpVars, exportVars,
                   neighbors>>

DeleteNext ==
    \/ SiteNext
    \/ DeleteProject

DeleteSpec == Init /\ [][DeleteNext]_vars

-----------------------------------------------------------------------------
(* getNodeNeighbors applied to the graphs of Graphs *)

GraphInit ==
    /\ Constructed
    /\ neighbors \in [call : NeighborCalls, result : {NoResult}]

\* the call returns
ReturnNeighbors ==
    /\ neighbors.result = NoResult
    /\ neighbors.call # NoCall
    /\ neighbors' = [neighbors EXCEPT !.result =
                        getNodeNeighbors(neighbors.call.nodeId, neighbors.call.graphData,
                                         neighbors.call.depth)]
    /\ UNCHANGED <<crawlVars, nlpVars, exportVars, deleteReply>>

GraphNext == ReturnNeighbors

GraphSpec == GraphInit /\ [][GraphNext]_vars

TypeOK ==
    /\ httpStatus \in {0, 200, 400}
    /\ bgPc \in {"idle", "iterating", "body", "announce", "completed", "failed"}
    /\ genPc \in {"init", "seeding", "loop", "await", "yield", "done", "thrown", "returned"}
    /\ sendThrows \in 0..2
    /\ exited \in BOOLEAN
    /\ exited => bgPc = "failed"
    /\ seen \subseteq AllUrls
    /\ Len(task) = Len(batch) /\ Len(results) = Len(batch)

-----------------------------------------------------------------------------
(* Properties *)

Started == genPc # "init"
Targets(q) == {q[i] : i \in 1..Len(q)}
QueuedUrls == {t.url : t \in Targets(queue)}
BatchUrls == {t.url : t \in Targets(batch)}
SeedDomain == getDomain(config.targetUrl)
\* promises of the batch that have not settled
InFlight == Cardinality({i \in 1..Len(task) : task[i] \in {"delay", "fetch"}})
                + (IF genPc = "seeding" THEN 1 ELSE 0)
Reported(u) == progressLog[u] # <<>>

\* a URL is queued and fetched as a crawl target at most once
NoCrawlTargetTwice ==
    /\ \A i, j \in 1..Len(queue) : queue[i].url = queue[j].url => i = j
    /\ \A u \in Urls : fetchLog[u] <= (IF u = config.targetUrl THEN 2 ELSE 1)

\* C1: no URL appears twice among the fetches issued in a run (the fetch of
\* the root during seeding included), so a failed URL is not fetched again
C1_NoUrlFetchedTwice == \A u \in Urls : fetchLog[u] <= 1

\* C2: every target queued, taken into a batch or yielded has depth <= maxDepth
C2_DepthBound ==
    Started =>
        /\ \A t \in Targets(queue) \cup Targets(batch) : Num(t.depth) <= config.maxDepth
        /\ \A p \in yielded : Num(p.depth) <= config.maxDepth

\* C3: the stored project always has processedUrls = successfulUrls + failedUrls
C3_CounterSum == project.processedUrls = project.successfulUrls + project.failedUrls
C3_Witness == project.successfulUrls >= 1 /\ project.failedUrls >= 1 /\ cbThrows >= 1

\* C4: processed, and the stored processedUrls, count one per settled fetch,
\* also when onProgress throws inside the try block
C4_OnePerSettledFetch == processed = settled /\ project.processedUrls = settled

\* C5: every target ever queued has the host of the seed URL
C5_SameHost == Started => \A u \in seen : getDomain(u) = SeedDomain

\* C6: at most maxWorkers fetches are started and not settled
C6_ConcurrencyBound == Started => Num(InFlight) <= config.maxWorkers
C6_Witness == genPc = "await" /\ Num(InFlight) = config.maxWorkers /\ Len(queue) > 0

\* C7: a seeding that finds no category yields no page, reports no progress
\* and takes no batch; the generator ends without entering its loop, and the
\* step that ends it takes the project from running straight to completed
C7_EmptySeed ==
    [][seedCount' = 0 =>
           /\ yielded' = {} /\ docs' = 0 /\ batchNo' = 0
           /\ \A u \in Urls : progressLog'[u] = <<>>
           /\ project'.processedUrls = 0
           /\ genPc' \in {"loop", "done"}
           /\ genPc' = "loop" => project'.status = "running"
           /\ genPc = "loop" /\ genPc' = "done" => project'.status = "completed"
           /\ project.status = "running" /\ project'.status # "running"
                  => genPc' = "done" /\ project'.status = "completed"]_vars
C7_Witness == seedCount = 0 /\ genPc = "done" /\ project.status = "completed"

\* C8: a link back to the root found on a crawled page is not queued
C8_RootNotRequeued ==
    \A t \in Targets(queue) \cup Targets(batch) : t.depth > 0 => t.url # config.targetUrl

\* C9: a failed target aborts nothing: every discovered URL stays queued, in
\* the batch or fetched, the generator throws only when onProgress threw in
\* the catch handler, and a generator that returned has fetched them all
C9_FailureDoesNotAbort ==
    /\ \A u \in seen : u \in QueuedUrls \/ u \in BatchUrls \/ Reported(u)
    /\ genPc = "thrown" => catchThrows >= 1
    /\ genPc = "done" => queue = <<>> /\ \A u \in seen : Reported(u)
C9_Witness ==
    /\ cbThrows = 0
    /\ \E u \in Urls \ BatchUrls : Reported(u) /\ progressLog[u][1] = "error"
    /\ \E i \in 1..Len(task) : task[i] = "resolved" /\ ~results[i].isNull

\* C10: with no exception from a broadcast, failedUrls counts the failed
\* targets, the status is never failed and a finished run is completed;
\* status failed needs an exception outside the try block of a target: in its
\* catch handler, or in a broadcast of the consumer
C10_FailuresStillComplete ==
    /\ cbThrows = 0 /\ sendThrows = 0 =>
           /\ project.failedUrls = failedTargets
           /\ project.status # "failed"
           /\ genPc = "done" => project.status = "completed"
    /\ project.status = "failed" => catchThrows >= 1 \/ sendThrows >= 1
C10_Witness ==
    /\ cbThrows = 0 /\ sendThrows = 0 /\ failedTargets >= 2
    /\ bgPc = "completed" /\ project.status = "completed" /\ project.successfulUrls >= 1

\* fetches of u that were issued and have not settled
Pending(u) ==
    Cardinality({i \in 1..Len(task) : task[i] = "fetch" /\ batch[i].url = u})
        + (IF genPc = "seeding" /\ u = config.targetUrl THEN 1 ELSE 0)

\* C11: every fetch of a run that has settled, the fetch of the root during
\* seeding included, was reported by exactly one onProgress call for its URL,
\* with status success when the fetch gave a page
C11_OneSnapshotPerFetch ==
    /\ \A u \in Urls : Len(progressLog[u]) = fetchLog[u] - Pending(u)
    /\ \A i \in 1..Len(task) :
           task[i] = "resolved" /\ ~results[i].isNull
               => progressLog[batch[i].url] = <<"success">>

\* C12 as stated: the targets found on the root page are queued at depth 1,
\* and with maxDepth = 1 they are yielded at depth 1 and no link found on a
\* crawled page is queued
C12_SeedsAtDepthOne ==
    [][/\ genPc = "seeding" => \A t \in Targets(queue') : t.depth = 1
       /\ genPc \notin {"init", "seeding"} /\ config.maxDepth = Num(1)
              => seen' = seen /\ \A p \in yielded' : p.depth = 1]_vars

\* C12 amended: the targets found on the root page are queued at depth 0, and
\* every other target is queued by a page of depth d < maxDepth, at depth
\* d + 1; with maxDepth = 1 the links of the depth-0 pages are queued
C12_SeedsAtDepthZero ==
    [][/\ genPc = "seeding" => \A t \in Targets(queue') : t.depth = 0
       /\ genPc # "seeding"
              => \A t \in Targets(queue') \ Targets(queue) :
                     \E i \in 1..Len(batch) :
                         /\ task[i] = "fetch" /\ task'[i] = "resolved"
                         /\ ~results'[i].isNull
                         /\ ShouldFollow(batch[i].depth, config.maxDepth)
                         /\ t.depth = batch[i].depth + 1]_vars
C12_Witness ==
    /\ config.maxDepth = Num(1)
    /\ \E p \in yielded : p.depth = 0
    /\ \E p \in yielded : p.depth = 1

\* the background task is over: the project has a terminal status and the
\* generator has ended
Terminated ==
    /\ bgPc \in {"completed", "failed"}
    /\ project.status \in {"completed", "failed"}
    /\ genPc \in {"done", "thrown", "returned"}

\* the cap of the batch counter never stops a run that has work left
BatchCapNotReached == genPc = "loop" /\ LoopCondition(queue) => batchNo < MaxBatches

\* C13: when every fetch settles and the consumer finishes each page, a
\* started run reaches a terminal project status (completed or failed) and
\* its generator ends, so the pages it yields are finitely many
C13_Termination == Started ~> Terminated
C13_Witness == Terminated /\ batchNo >= 2 /\ docs >= 2

\* C14: the project of a run is created pending, moves to running, then to
\* completed or failed, and a completed or failed project keeps its status
C14_StatusLifecycle ==
    [][/\ project.status = "none" => project'.status \in {"none", "pending"}
       /\ project.status = "pending" => project'.status \in {"pending", "running"}
       /\ project.status = "running"
              => project'.status \in {"running", "completed", "failed"}
       /\ project.status \in {"completed", "failed"}
              => project'.status = project.status]_vars

\* C15: once the project is marked failed no page is yielded, no progress is
\* reported and the project's counters stay as they are, also while fetches
\* of the failing batch are in flight
C15_SilentAfterFailure ==
    [][project.status = "failed"
           => /\ yielded' = yielded
              /\ progressLog' = progressLog
              /\ project' = project]_vars

\* promises of the batch whose fetch has not settled
Unsettled == {i \in 1..Len(task) : task[i] \in {"delay", "fetch"}}

\* C16 as stated: a page is yielded in the step in which its own fetch settles
C16_YieldedOnSettle ==
    [][\A i \in 1..Len(batch) :
           task[i] = "fetch" /\ task'[i] = "resolved" /\ ~results'[i].isNull
               => results'[i] \in yielded']_vars

\* C16 amended: a page is yielded only after every fetch of its batch has
\* settled: while a fetch of the batch is in flight no page of the batch has
\* been yielded and the consumer holds no page
C16_YieldedAfterBatch ==
    Unsettled # {} =>
        /\ bgPc # "body"
        /\ \A i \in 1..Len(batch) : \A p \in yielded : p.url # batch[i].url
C16_Witness ==
    /\ bgPc = "body" /\ Len(batch) >= 2
    /\ \E i \in 1..Len(settleOrder) :
           settleOrder[i] = yieldIdx - 1 /\ i < Len(settleOrder)

\* the run was accepted with a configuration inside the schema's bounds
ConfigInBounds ==
    /\ config.maxDepth \in Num(SchemaMinDepth)..Num(SchemaMaxDepth)
    /\ config.maxWorkers \in Num(SchemaMinWorkers)..Num(SchemaMaxWorkers)
    /\ config.delay \in SchemaMinDelay..SchemaMaxDelay

\* C17: a start request whose configuration is outside the bounds is answered
\* with an error and leaves no trace: no project, no run, no fetch; a run
\* that exists was started with a configuration inside the bounds
C17_InvalidConfigRejected ==
    /\ httpStatus = 400 =>
           /\ project = NoProject /\ config = NoConfig
           /\ bgPc = "idle" /\ genPc = "init"
           /\ \A u \in Urls : fetchLog[u] = 0
    /\ httpStatus = 200 => ConfigInBounds
    /\ project # NoProject \/ Started => httpStatus = 200
C17_Witness == httpStatus = 400

\* C18: a batch is taken only when every promise of the batch before it has
\* settled, and a fetch is issued only for a target of the batch taken last
C18_BatchBarrier ==
    [][/\ batchNo' > batchNo => \A i \in 1..Len(task) : task[i] = "resolved"
       /\ Started => \A u \in Urls : fetchLog'[u] > fetchLog[u] => u \in BatchUrls']_vars
C18_Witness == batchNo >= 2 /\ Unsettled # {} /\ settled >= 2

\* C19: the batch is fixed when it is taken, from targets queued before; a
\* target queued while a batch is processed is in the queue, not in that
\* batch, so a later batch is the first that can take it
C19_OneBatchLatency ==
    [][/\ batchNo' = batchNo => batch' = batch
       /\ batchNo' > batchNo => Targets(batch') \subseteq Targets(queue)
       /\ \A t \in Targets(queue') \ Targets(queue) : t.url \notin BatchUrls']_vars
C19_Witness ==
    /\ batchNo >= 2
    /\ \E i \in 1..Len(batch) : batch[i].depth >= 1 /\ task[i] = "fetch"

\* promise k of the batch returned a page and the page has been yielded
HasPage(k) == ~results[k].isNull
Yielded(k) == HasPage(k) /\ results[k] \in yielded

\* C20 as stated: of two pages of a batch the one whose fetch settled first
\* is yielded first
C20_SettlementOrder ==
    \A a, b \in 1..Len(settleOrder) :
        a < b /\ HasPage(settleOrder[a]) /\ Yielded(settleOrder[b])
            => Yielded(settleOrder[a])

\* C20 amended: of two pages of a batch the one whose target stands first in
\* the batch is yielded first, whichever fetch settled first
C20_BatchOrder ==
    \A j, k \in 1..Len(results) :
        j < k /\ HasPage(j) /\ Yielded(k) => Yielded(j)
C20_Witness ==
    /\ Len(settleOrder) = 2 /\ settleOrder[1] = 2 /\ settleOrder[2] = 1
    /\ HasPage(2) /\ Yielded(1) /\ ~Yielded(2)

\* the smaller of two numbers
Min(a, b) == IF a < b THEN a ELSE b

\* C21: a batch is the first min(maxWorkers, queue length) targets of the
\* queue in queue order, and the queue keeps the others in their order
C21_TakeIsFifoPrefix ==
    [][batchNo' > batchNo
           => /\ Num(Len(batch')) = Min(config.maxWorkers, Num(Len(queue)))
              /\ batch' \o queue' = queue]_vars

\* C22: while the promises of a batch are awaited the queue, the seen set
\* and the processed counter stay as they are
C22_OnlyOrchestratorWrites ==
    [][genPc = "await" /\ genPc' = "await"
           => seen' = seen /\ queue' = queue /\ processed' = processed]_vars

\* C23: the depths of the targets in the queue never decrease from head to
\* tail, whatever maxWorkers and the order in which fetches settle
C23_QueueDepthsSorted ==
    \A i, j \in 1..Len(queue) : i < j => queue[i].depth <= queue[j].depth

\* C24: the step in which a target's fetch fails (fetch throws, or the
\* response is not ok) leaves the queue and the seen set as they were
C24_FailureAddsNothing ==
    [][failedTargets' > failedTargets => seen' = seen /\ queue' = queue]_vars
C24_Witness ==
    /\ failedTargets >= 1 /\ cbThrows = 0 /\ genPc = "await"
    /\ \E i \in 1..Len(task) :
           /\ task[i] = "resolved" /\ ~HasPage(i)
           /\ ShouldFollow(batch[i].depth, config.maxDepth)
           /\ progressLog[batch[i].url] = <<"error">>
    /\ queue # <<>>

\* the crawl of the site with the fetches of every batch settling in batch
\* order: the (url, depth) pairs of the pages it yields
RECURSIVE InOrderLoop(_, _)
InOrderLoop(fr, out) ==
    IF ~LoopCondition(fr.queue)
    THEN out
    ELSE LET b == SpliceTaken(fr.queue, config.maxWorkers)
             Page(t) == scrapePage(SiteResponse(t.url), t.url, t.depth, SeedDomain,
                                   t.category)
             F[i \in 0..Len(b)] ==
                 IF i = 0
                 THEN [seen |-> fr.seen, queue |-> SpliceRest(fr.queue, config.maxWorkers)]
                 ELSE IF ~Page(b[i]).isNull /\ ShouldFollow(b[i].depth, config.maxDepth)
                      THEN OfferLinks(Page(b[i]).links, b[i].depth, b[i].category, F[i - 1])
                      ELSE F[i - 1]
         IN  InOrderLoop(F[Len(b)],
                         out \cup {<<b[i].url, b[i].depth>> :
                                       i \in {k \in 1..Len(b) : ~Page(b[k]).isNull}})
InOrderPairs ==
    InOrderLoop(SeedQueue(extractCategories(SiteResponse(config.targetUrl), SeedDomain),
                          [seen |-> {}, queue |-> <<>>]), {})
YieldedPairs == {<<p.url, p.depth>> : p \in yielded}

\* C25: a finished run over the site has yielded the same (url, depth) pairs
\* as the run in which every batch settles in batch order
C25_SettleOrderIrrelevant == genPc = "done" => YieldedPairs = InOrderPairs

\* C26: the documents stored never outnumber successfulUrls, a completed
\* project has as many documents as successfulUrls, and while a batch is
\* awaited every page yielded before has been consumed
C26_DocsMatchSuccesses ==
    /\ docs <= project.successfulUrls
    /\ project.status = "completed" => docs = project.successfulUrls
    /\ genPc = "await" => docs = Cardinality(yielded) /\ bgPc = "iterating"

\* C27: a project holds at most one Entity per (name, type) pair, and every
\* Entity's frequency is the length of its documentIds list, which holds no
\* document id twice, also while runs for different projects interleave
C27_EntityAggregation ==
    /\ \A i, j \in 1..Len(entities) :
           /\ entities[i].projectId = entities[j].projectId
           /\ entities[i].name = entities[j].name
           /\ entities[i].type = entities[j].type
           => i = j
    /\ \A i \in 1..Len(entities) :
           /\ entities[i].frequency = Len(entities[i].documentIds)
           /\ \A m, n \in 1..Len(entities[i].documentIds) :
                  entities[i].documentIds[m] = entities[i].documentIds[n] => m = n

\* two runs have interleaved their saves: a document of one project gave it
\* two entities, the other project's entity was created between them, and the
\* first entity was found again in a later document
C27_Witness ==
    \E i, j, k \in 1..Len(entities) :
        /\ i < k /\ k < j
        /\ entities[i].projectId = entities[j].projectId
        /\ entities[k].projectId # entities[i].projectId
        /\ entities[i].documentIds[1] = entities[j].documentIds[1]
        /\ entities[i].frequency = 2

\* C28: a download request for an export whose record has status ready, of
\* any accepted format, returns the file content and never a 404
C28_ReadyExportDownloads ==
    [][download' # download /\ download'.id \in 1..Len(exports)
           /\ exports[download'.id].status = "ready"
       => download'.status = 200]_vars

\* C29: every stored document refers to a project that exists: once the
\* project is deleted none of its documents remains and none is created
C29_NoOrphanDocuments == docs > 0 => project # NoProject

RECURSIVE Within(_, _, _)
\* the nodes at shortest-path distance at most d from nodeId, edges undirected
Within(graphData, nodeId, d) ==
    IF d = 0 THEN {nodeId}
    ELSE LET near == Within(graphData, nodeId, d - 1)
         IN  near \cup {n \in graphData.nodes :
                           \E i \in 1..Len(graphData.edges), m \in near :
                               \/ graphData.edges[i].from = m /\ graphData.edges[i].to = n
                               \/ graphData.edges[i].to = m /\ graphData.edges[i].from = n}

Range(s) == {s[i] : i \in 1..Len(s)}

\* C30: getNodeNeighbors returns exactly the nodes at shortest-path distance at
\* most depth from nodeId, and exactly the edges between returned nodes
C30_NeighborsWithinDepth ==
    neighbors.result # NoResult =>
        LET call == neighbors.call
            near == Within(call.graphData, call.nodeId, call.depth)
        IN  /\ Range(neighbors.result.nodes) = near
            /\ Range(neighbors.result.edges) =
                   {i \in 1..Len(call.graphData.edges) :
                       /\ call.graphData.edges[i].from \in near
                       /\ call.graphData.edges[i].to \in near}
====
